---- MODULE Spec2Model ----
(***************************************************************************)
(* Grid locking data structures of CGAL Mesh_3                             *)
(* (Mesh_3/include/CGAL/Mesh_3/Locking_data_structures.h).                 *)
(*                                                                         *)
(* The three classes Simple_grid_locking_ds (atomic<bool> per cell),       *)
(* Simple_grid_locking_ds_with_thread_ids (atomic<unsigned> owner id per   *)
(* cell) and Simple_grid_locking_ds_with_mutex (recursive_mutex per cell)  *)
(* share every line but the acquisition and release of one slot; the       *)
(* variable strategy selects the class, fixed at construction.             *)
(*                                                                         *)
(* Granularity: every access to the shared array m_grid is a step of its   *)
(* own.  Accesses to thread-local data (m_tls_grids.local(),               *)
(* m_tls_locked_cells.local(), locals of the method) are invisible to the  *)
(* other threads and are grouped with the control flow that follows them,  *)
(* but never with a shared access: the write of the thread-local bitmap    *)
(* is a step separate from the write of the slot.                          *)
(***************************************************************************)
EXTENDS Integers, Sequences, FiniteSets, TLC

\* ------------------------------------------------------------------ bounds
N == 3            \* num_grid_cells_per_axis given to the constructor
MaxCalls == 3     \* public calls started, all threads together
MaxListLen == 8   \* entries of m_tls_locked_cells when a worker starts an attempt
IntBits == 6      \* width of int in the conversions of the index computation
MaxLedgerCalls == 5  \* public calls started in the runs on single cells

\* Worker threads using the manager.
Threads == {1, 2}
NumCells == N * N * N
Cells == 0..(NumCells - 1)

\* Values of lock_radius handed to try_lock(point, lock_radius).
Radii == {0, 1}

\* Bounding box given to the constructor (bbox.xmin() ... bbox.zmax()).
Bbox == [xmin |-> 0, ymin |-> 0, zmin |-> 0, xmax |-> 12, ymax |-> 12, zmax |-> 12]

\* Points handed to try_lock(point, radius) and unlock(point): one inside
\* the box near its lower corner, one outside beyond its upper corner.
Points == {<<1, 1, 1>>, <<14, 14, 14>>}

\* Cell indices handed to try_lock(int) and unlock(int).
CellArgs == {N * N + N + 1}

Strategies == {"binary", "ids", "mutex"}

VARIABLES
  strategy,            \* which of the three classes is instantiated
  m_grid,              \* the shared slot array
  m_tls_grids,         \* per thread: the set of cells whose bool is true
  m_tls_locked_cells,  \* per thread: std::vector<int> of locked cells
  m_tls_thread_ids,    \* per thread: id (0: local() not yet initialised)
  last_id,             \* static unsigned int last_id of the id initialiser
  id_reg,              \* per thread: last_id as read by ++last_id
  pc,                  \* per thread: position in the running method
  op,                  \* per thread: the public call being executed
  cell_index,          \* per thread: argument of the running try_lock(int)/unlock(int)
  old_value,           \* per thread: result of the last compare_and_swap / try_lock
  this_ret,            \* per thread: value returned by the finished call
                       \*   (first component of the pair of try_lock(point, radius))
  ret_index,           \* per thread: second component of the pair returned
                       \*   by try_lock(point, radius)
  locked_cells_tmp,    \* per thread: local vector of try_lock(point, radius)
  pos,                 \* per thread: position of (i, j, k) in the cube traversal
  it,                  \* per thread: iterator of the rollback / unlock_all loop
  holds,               \* history: cells acquired by the thread (successful
                       \*   acquisition) and not yet passed to an unlock
  pre,                 \* history: m_tls_grids of the thread when the call began
  prelist,             \* history: m_tls_locked_cells of the thread when the call began
  preslot,             \* history: m_grid[op.index] when the call began
  region_held,         \* history: cells of the cubes the thread locked with
                       \*   success and has not passed to unlock since
  attempts,            \* history: acquisition attempts on m_grid made by the
                       \*   running call of the thread (0, 1, or 2 for more)
  tried,               \* history: the calls of try_lock(int) the running call
                       \*   of the thread has made, in order: cell, result,
                       \*   and the path that produced the result
  ctor,                \* the constructor call: its arguments, its outcome and
                       \*   the members it computed
  ncalls               \* number of public calls started so far

vars == <<strategy, m_grid, m_tls_grids, m_tls_locked_cells, m_tls_thread_ids,
          last_id, id_reg, pc, op, cell_index, old_value, this_ret, ret_index,
          locked_cells_tmp, pos, it, holds, pre, prelist, preslot,
          region_held, attempts, tried, ctor, ncalls>>

\* ---------------------------------------------------------------- grid index
Max(a, b) == IF a >= b THEN a ELSE b
Min(a, b) == IF a <= b THEN a ELSE b

\* static_cast<int>(num / den) for den > 0: truncation toward zero.
TruncDiv(num, den) == IF num >= 0 THEN num \div den ELSE -((-num) \div den)

\* static_cast<int>((v - vmin) * resolution), resolution = n / (vmax - vmin),
\* then std::max(0, std::min(index, n - 1)).
AxisIndex(v, vmin, vmax) ==
  Max(0, Min(TruncDiv((v - vmin) * N, vmax - vmin), N - 1))

IndexX(p) == AxisIndex(p[1], Bbox.xmin, Bbox.xmax)
IndexY(p) == AxisIndex(p[2], Bbox.ymin, Bbox.ymax)
IndexZ(p) == AxisIndex(p[3], Bbox.zmin, Bbox.zmax)

\* index_z*n*n + index_y*n + index_x
CellIndex(ix, iy, iz) == iz * N * N + iy * N + ix

PointIndex(p) == CellIndex(IndexX(p), IndexY(p), IndexZ(p))

\* Lower and upper limits of one axis of the clamped cube.
AxisLo(i, r) == Max(0, i - r)
AxisHi(i, r) == Min(N - 1, i + r)

\* The cells of the cube around p in the order the three nested loops visit
\* them: i (x) outermost, j (y), k (z) innermost, each ascending.
CubeSeq(p, r) ==
  LET lx == AxisLo(IndexX(p), r)  hx == AxisHi(IndexX(p), r)
      ly == AxisLo(IndexY(p), r)  hy == AxisHi(IndexY(p), r)
      lz == AxisLo(IndexZ(p), r)  hz == AxisHi(IndexZ(p), r)
      ny == hy - ly + 1
      nz == hz - lz + 1
      len == (hx - lx + 1) * ny * nz
  IN [q \in 1..len |->
        CellIndex(lx + ((q - 1) \div (ny * nz)),
                  ly + (((q - 1) \div nz) % ny),
                  lz + ((q - 1) % nz))]

SeqSet(s) == {s[q] : q \in 1..Len(s)}

\* ------------------------------------------------------------------- slots
\* Value of a slot nobody holds: m_grid[i] = false, m_grid[i] = 0, or a
\* recursive_mutex nobody owns.
FreeSlot ==
  CASE strategy = "binary" -> FALSE
    [] strategy = "ids"    -> 0
    [] strategy = "mutex"  -> [owner |-> 0, count |-> 0]

NoOp == [name |-> "none", point |-> <<>>, radius |-> 0, index |-> 0]

\* ------------------------------------------------------------- constructor
\* n / extent in double arithmetic: a quotient, or infinity or NaN when the
\* extent of the box on the axis is zero.  A quotient is kept as its
\* numerator and denominator.
Resolution(n, extent) ==
  [kind |-> IF extent # 0 THEN "finite" ELSE IF n = 0 THEN "nan" ELSE "inf",
   num |-> n, den |-> extent]

\* The constructor called with bbox and num_grid_cells_per_axis = n.  It
\* tests none of its arguments.  new[] of a negative number of elements
\* throws; any other call runs to its end: the table of n*n*n slots is
\* allocated (none for n = 0) and the three resolutions are computed.
Construct(bbox, n) ==
  LET num_cells == n * n * n IN
  IF num_cells < 0
  THEN [status |-> "bad_alloc", n |-> n, bbox |-> bbox, num_cells |-> 0,
        resolution |-> <<>>]
  ELSE [status |-> "built", n |-> n, bbox |-> bbox, num_cells |-> num_cells,
        resolution |-> <<Resolution(n, bbox.xmax - bbox.xmin),
                         Resolution(n, bbox.ymax - bbox.ymin),
                         Resolution(n, bbox.zmax - bbox.zmin)>>]

Init ==
  /\ strategy \in Strategies
  /\ m_grid = [c \in Cells |-> FreeSlot]
  /\ m_tls_grids = [t \in Threads |-> {}]
  /\ m_tls_locked_cells = [t \in Threads |-> <<>>]
  /\ m_tls_thread_ids = [t \in Threads |-> 0]
  /\ last_id = 0
  /\ id_reg = [t \in Threads |-> 0]
  /\ pc = [t \in Threads |-> "idle"]
  /\ op = [t \in Threads |-> NoOp]
  /\ cell_index = [t \in Threads |-> 0]
  /\ old_value = [t \in Threads |-> 0]
  /\ this_ret = [t \in Threads |-> FALSE]
  /\ ret_index = [t \in Threads |-> 0]
  /\ locked_cells_tmp = [t \in Threads |-> <<>>]
  /\ pos = [t \in Threads |-> 0]
  /\ it = [t \in Threads |-> 0]
  /\ holds = [t \in Threads |-> {}]
  /\ pre = [t \in Threads |-> {}]
  /\ prelist = [t \in Threads |-> <<>>]
  /\ preslot = [t \in Threads |-> FreeSlot]
  /\ region_held = [t \in Threads |-> {}]
  /\ attempts = [t \in Threads |-> 0]
  /\ tried = [t \in Threads |-> <<>>]
  /\ ctor = Construct(Bbox, N)
  /\ ncalls = 0

\* ------------------------------------------------- acquisition of one slot
\* Variant: a plain store in place of the compare-and-swap.
CompareAndSwapStores(cur, value, comparand) == value

\* tbb::atomic<T>::compare_and_swap(value, comparand): the slot afterwards.
\* The value returned by the call is the slot before it.
CompareAndSwap(cur, value, comparand) == IF cur = comparand THEN value ELSE cur

\* tbb::recursive_mutex::try_lock() by thread t: the mutex afterwards.
MutexTryLock(m, t) ==
  IF m.owner = 0 \/ m.owner = t
  THEN [owner |-> t, count |-> m.count + 1]
  ELSE m

\* Whether that try_lock() returned true.
MutexLocked(m, t) == m.owner = 0 \/ m.owner = t

\* The slot after the acquisition attempt of thread t.
SlotAfterAttempt(cur, t) ==
  CASE strategy = "binary" -> CompareAndSwap(cur, TRUE, FALSE)
    [] strategy = "ids"    -> CompareAndSwap(cur, m_tls_thread_ids[t], 0)
    [] strategy = "mutex"  -> MutexTryLock(cur, t)

\* Variant: the result of the attempt is not tested.
AttemptSucceededUntested(cur, t) == TRUE

\* The test following the attempt: old_value == false, old_value == 0,
\* locked == true; cur is the slot before the attempt.
AttemptSucceeded(cur, t) ==
  CASE strategy = "binary" -> cur = FALSE
    [] strategy = "ids"    -> cur = 0
    [] strategy = "mutex"  -> MutexLocked(cur, t)

\* Variant: the comparison of the loop condition is reversed.
SpinAgainReversed(old, id) == old > id

\* Loop condition of the owner-id class once ret == false:
\* while (ret == false && old_value < this_thread_id).
SpinAgain(old, id) == old < id

\* ---------------------------------------------------- release of one slot
\* Variant: unlock(int) does not release the slot.
SlotsAfterUnlockKept(cur, t) == {cur}

\* The slots unlock(int) by thread t can leave behind.  Unlocking a
\* recursive_mutex the thread does not own is undefined: the mutex is
\* either left as it is or released.
SlotsAfterUnlock(cur, t) ==
  CASE strategy = "binary" -> {FALSE}
    [] strategy = "ids"    -> {0}
    [] strategy = "mutex"  ->
         IF cur.owner = t
         THEN {IF cur.count > 1
               THEN [owner |-> t, count |-> cur.count - 1]
               ELSE [owner |-> 0, count |-> 0]}
         ELSE {cur, [owner |-> 0, count |-> 0]}

\* ------------------------------------------------------------ try_lock(int)
\* Variant: the bitmap is not consulted on entry.
EnterLabelUnchecked(t, c, grid) ==
  IF strategy = "ids" /\ m_tls_thread_ids[t] = 0 THEN "id_read" ELSE "cas"

\* Entry of try_lock(int) on cell c by a thread whose bitmap is grid:
\* "Already locked by this thread?" selects the reentrant path; otherwise
\* the thread goes on to the acquisition (the owner-id class first fetches
\* m_tls_thread_ids.local(), initialised on its first use).
EnterLabel(t, c, grid) ==
  IF c \in grid THEN "reentrant"
  ELSE IF strategy = "ids" /\ m_tls_thread_ids[t] = 0 THEN "id_read"
  ELSE "cas"

\* ------------------------------------------------ continuation at call site
\* Variant: the rollback starts one entry too late.
RollbackCellsSkipFirst(t) ==
  IF locked_cells_tmp[t] = <<>> THEN <<>> ELSE Tail(locked_cells_tmp[t])

\* The range [locked_cells_tmp.begin(), locked_cells_tmp.end()) the rollback
\* of try_lock(point, radius) walks through, calling unlock on each entry.
RollbackCells(t) == locked_cells_tmp[t]

\* Variant: the index of the cell tried last is returned.
RetIndexLastTried(t) == cell_index[t]

\* Second component of the pair try_lock(point, radius) returns: the local
\* index, computed from the point when the call began (try_lock(int)
\* returns a bool only).
RetIndex(t) == IF op[t].name = "try_lock_point" THEN op[t].index ELSE 0

\* One completed call of try_lock(int) by thread t: the cell, the value
\* returned, and the branch that returned it (the bit was already set, the
\* attempt on the slot succeeded, or it failed).
Tried(t, r) ==
  [cell |-> cell_index[t], ret |-> r,
   path |-> IF pc[t] = "reentrant" THEN "already_locked"
            ELSE IF r THEN "locked" ELSE "refused"]

\* What the caller of try_lock(int) does with its result r: the public
\* try_lock(int) and try_lock(point, 0) return it; the loop of
\* try_lock(point, radius) records the cell and goes on, or starts the
\* rollback over locked_cells_tmp and returns false.
TryLockResult(t, r, grid) ==
  LET cube == CubeSeq(op[t].point, op[t].radius) IN
  /\ tried' = [tried EXCEPT ![t] = Append(@, Tried(t, r))]
  /\ IF op[t].radius = 0
     THEN /\ pc' = [pc EXCEPT ![t] = "ret"]
          /\ this_ret' = [this_ret EXCEPT ![t] = r]
          /\ ret_index' = [ret_index EXCEPT ![t] = RetIndex(t)]
          /\ UNCHANGED <<locked_cells_tmp, pos, it, cell_index, region_held>>
     ELSE IF r
     THEN /\ locked_cells_tmp' =
               [locked_cells_tmp EXCEPT ![t] = Append(@, cell_index[t])]
          /\ IF pos[t] < Len(cube)
             THEN /\ pos' = [pos EXCEPT ![t] = @ + 1]
                  /\ cell_index' = [cell_index EXCEPT ![t] = cube[pos[t] + 1]]
                  /\ pc' = [pc EXCEPT ![t] = EnterLabel(t, cube[pos[t] + 1], grid)]
                  /\ UNCHANGED <<this_ret, ret_index, it, region_held>>
             ELSE /\ pc' = [pc EXCEPT ![t] = "ret"]
                  /\ this_ret' = [this_ret EXCEPT ![t] = TRUE]
                  /\ ret_index' = [ret_index EXCEPT ![t] = RetIndex(t)]
                  /\ region_held' = [region_held EXCEPT ![t] = @ \cup SeqSet(cube)]
                  /\ UNCHANGED <<pos, cell_index, it>>
     ELSE IF RollbackCells(t) = <<>>
     THEN /\ pc' = [pc EXCEPT ![t] = "ret"]
          /\ this_ret' = [this_ret EXCEPT ![t] = FALSE]
          /\ ret_index' = [ret_index EXCEPT ![t] = RetIndex(t)]
          /\ UNCHANGED <<locked_cells_tmp, pos, it, cell_index, region_held>>
     ELSE /\ it' = [it EXCEPT ![t] = 1]
          /\ cell_index' = [cell_index EXCEPT ![t] = RollbackCells(t)[1]]
          /\ pc' = [pc EXCEPT ![t] = "unlock_grid"]
          /\ UNCHANGED <<locked_cells_tmp, pos, this_ret, ret_index, region_held>>

\* The reentrant path: ret = true, m_grid is not touched, nothing is
\* written to the bitmap or the list.
TryLockReentrant(t) ==
  /\ pc[t] = "reentrant"
  /\ TryLockResult(t, TRUE, m_tls_grids[t])
  /\ UNCHANGED <<strategy, m_grid, m_tls_grids, m_tls_locked_cells,
                 m_tls_thread_ids, last_id, id_reg, op, old_value, holds,
                 pre, prelist, preslot, ncalls,
                 attempts, ctor>>

\* First m_tls_thread_ids.local() of the thread: "return ++last_id" on a
\* static unsigned int, a plain read followed by a plain write.
ThreadIdRead(t) ==
  /\ pc[t] = "id_read"
  /\ id_reg' = [id_reg EXCEPT ![t] = last_id]
  /\ pc' = [pc EXCEPT ![t] = "id_write"]
  /\ UNCHANGED <<strategy, m_grid, m_tls_grids, m_tls_locked_cells,
                 m_tls_thread_ids, last_id, op, cell_index, old_value,
                 this_ret, locked_cells_tmp, pos, it, holds, pre, prelist,
                 preslot, region_held, ncalls,
                 attempts, ctor, ret_index, tried>>

ThreadIdWrite(t) ==
  /\ pc[t] = "id_write"
  /\ last_id' = id_reg[t] + 1
  /\ m_tls_thread_ids' = [m_tls_thread_ids EXCEPT ![t] = id_reg[t] + 1]
  /\ pc' = [pc EXCEPT ![t] = "cas"]
  /\ UNCHANGED <<strategy, m_grid, m_tls_grids, m_tls_locked_cells, id_reg,
                 op, cell_index, old_value, this_ret, locked_cells_tmp, pos,
                 it, holds, pre, prelist, preslot, region_held, ncalls,
                 attempts, ctor, ret_index, tried>>

\* One acquisition attempt on m_grid[cell_index]: compare_and_swap, or
\* try_lock() of the mutex.  On success the thread still has to write its
\* bitmap and list.  On failure the binary and mutex classes return false;
\* the owner-id class yields and then retries or returns false.
Attempt(t) ==
  /\ pc[t] = "cas"
  /\ attempts' = [attempts EXCEPT ![t] = Min(@ + 1, 2)]
  /\ LET c == cell_index[t]
         cur == m_grid[c]
     IN /\ m_grid' = [m_grid EXCEPT ![c] = SlotAfterAttempt(cur, t)]
        /\ IF AttemptSucceeded(cur, t)
           THEN /\ holds' = [holds EXCEPT ![t] = @ \cup {c}]
                /\ old_value' = [old_value EXCEPT ![t] = 0]
                /\ pc' = [pc EXCEPT ![t] = "mark"]
                /\ UNCHANGED <<this_ret, ret_index, locked_cells_tmp, pos, it,
                               cell_index, region_held, tried>>
           ELSE /\ UNCHANGED holds
                /\ IF strategy = "ids"
                   THEN /\ old_value' = [old_value EXCEPT ![t] = cur]
                        /\ IF SpinAgain(cur, m_tls_thread_ids[t])
                           THEN UNCHANGED <<pc, this_ret, ret_index,
                                            locked_cells_tmp, pos, it,
                                            cell_index, region_held, tried>>
                           ELSE TryLockResult(t, FALSE, m_tls_grids[t])
                   ELSE /\ UNCHANGED old_value
                        /\ TryLockResult(t, FALSE, m_tls_grids[t])
  /\ UNCHANGED <<strategy, m_tls_grids, m_tls_locked_cells, m_tls_thread_ids,
                 last_id, id_reg, op, pre, prelist, preslot, ncalls, ctor>>

\* After a successful attempt: m_tls_grids.local()[cell_index] = true and
\* m_tls_locked_cells.local().push_back(cell_index); try_lock returns true.
MarkLocked(t) ==
  /\ pc[t] = "mark"
  /\ m_tls_grids' = [m_tls_grids EXCEPT ![t] = @ \cup {cell_index[t]}]
  /\ m_tls_locked_cells' =
       [m_tls_locked_cells EXCEPT ![t] = Append(@, cell_index[t])]
  /\ TryLockResult(t, TRUE, m_tls_grids[t] \cup {cell_index[t]})
  /\ UNCHANGED <<strategy, m_grid, m_tls_thread_ids, last_id, id_reg, op,
                 old_value, holds, pre, prelist, preslot, ncalls,
                 attempts, ctor>>

\* -------------------------------------------------------------- unlock(int)
\* First statement of unlock(int): the slot is released (m_grid[i] = false,
\* m_grid[i] = 0, m_grid[i].unlock()).  From here on the thread no longer
\* holds the cell.
UnlockGrid(t) ==
  /\ pc[t] = "unlock_grid"
  /\ \E slot \in SlotsAfterUnlock(m_grid[cell_index[t]], t) :
       m_grid' = [m_grid EXCEPT ![cell_index[t]] = slot]
  /\ holds' = [holds EXCEPT ![t] = @ \ {cell_index[t]}]
  /\ region_held' = [region_held EXCEPT ![t] =
                       IF op[t].name = "try_lock_point" THEN @
                       ELSE @ \ {cell_index[t]}]
  /\ pc' = [pc EXCEPT ![t] = "unlock_tls"]
  /\ UNCHANGED <<strategy, m_tls_grids, m_tls_locked_cells, m_tls_thread_ids,
                 last_id, id_reg, op, cell_index, old_value, this_ret,
                 locked_cells_tmp, pos, it, pre, prelist, preslot, ncalls,
                 attempts, ctor, ret_index, tried>>

\* Second statement of unlock(int): m_tls_grids.local()[i] = false; then the
\* caller goes on: the public unlock returns, the rollback loop of
\* try_lock(point, radius) takes the next cell of locked_cells_tmp or
\* returns false, the loop of unlock_all_tls_locked_cells takes the next
\* entry of the list.
UnlockTls(t) ==
  /\ pc[t] = "unlock_tls"
  /\ m_tls_grids' = [m_tls_grids EXCEPT ![t] = @ \ {cell_index[t]}]
  /\ CASE op[t].name = "try_lock_point" ->
            IF it[t] < Len(RollbackCells(t))
            THEN /\ it' = [it EXCEPT ![t] = @ + 1]
                 /\ cell_index' =
                      [cell_index EXCEPT ![t] = RollbackCells(t)[it[t] + 1]]
                 /\ pc' = [pc EXCEPT ![t] = "unlock_grid"]
                 /\ UNCHANGED <<this_ret, ret_index>>
            ELSE /\ pc' = [pc EXCEPT ![t] = "ret"]
                 /\ this_ret' = [this_ret EXCEPT ![t] = FALSE]
                 /\ ret_index' = [ret_index EXCEPT ![t] = RetIndex(t)]
                 /\ UNCHANGED <<it, cell_index>>
       [] op[t].name = "unlock_all" ->
            /\ it' = [it EXCEPT ![t] = @ + 1]
            /\ pc' = [pc EXCEPT ![t] = "unlock_all"]
            /\ UNCHANGED <<this_ret, ret_index, cell_index>>
       [] OTHER ->
            /\ pc' = [pc EXCEPT ![t] = "ret"]
            /\ UNCHANGED <<this_ret, ret_index, it, cell_index>>
  /\ UNCHANGED <<strategy, m_grid, m_tls_locked_cells, m_tls_thread_ids,
                 last_id, id_reg, op, old_value, locked_cells_tmp, pos, holds,
                 pre, prelist, preslot, region_held, ncalls,
                 attempts, ctor, tried>>

\* ------------------------------------------- unlock_all_tls_locked_cells()
\* Variant: every entry of the list is unlocked, marked or not.
StillOwnedUnchecked(t, from) == from..Len(m_tls_locked_cells[t])

\* Variant: the loop starts one entry too late.
StillOwnedAfterFirst(t, from) ==
  {q \in (from + 1)..Len(m_tls_locked_cells[t]) :
     m_tls_locked_cells[t][q] \in m_tls_grids[t]}

\* Entries of the list from position from on whose cell is still marked in
\* the thread's bitmap ("If we still own the lock").
StillOwned(t, from) ==
  {q \in from..Len(m_tls_locked_cells[t]) :
     m_tls_locked_cells[t][q] \in m_tls_grids[t]}

\* The loop advances to the next entry that is still marked and unlocks it;
\* after the last entry the list is cleared.
UnlockAllLoop(t) ==
  /\ pc[t] = "unlock_all"
  /\ IF StillOwned(t, it[t]) # {}
     THEN LET q == CHOOSE x \in StillOwned(t, it[t]) :
                     \A y \in StillOwned(t, it[t]) : x <= y
          IN /\ it' = [it EXCEPT ![t] = q]
             /\ cell_index' = [cell_index EXCEPT ![t] = m_tls_locked_cells[t][q]]
             /\ pc' = [pc EXCEPT ![t] = "unlock_grid"]
             /\ UNCHANGED m_tls_locked_cells
     ELSE /\ m_tls_locked_cells' = [m_tls_locked_cells EXCEPT ![t] = <<>>]
          /\ pc' = [pc EXCEPT ![t] = "ret"]
          /\ UNCHANGED <<it, cell_index>>
  /\ UNCHANGED <<strategy, m_grid, m_tls_grids, m_tls_thread_ids, last_id,
                 id_reg, op, old_value, this_ret, locked_cells_tmp, pos, holds,
                 pre, prelist, preslot, region_held, ncalls,
                 attempts, ctor, ret_index, tried>>

\* --------------------------------------- check_if_all_tls_cells_are_unlocked
\* for (i = 0 ; unlocked && i < num_cells ; ++i) unlocked = (grid[i] == false)
AllTlsCellsUnlocked(t) == \A c \in Cells : c \notin m_tls_grids[t]

\* ------------------------------------------------------------ public calls
\* A thread that is in no call starts one; the history variables record its
\* bitmap and list at that moment.
Begin(t, o, c, label) ==
  /\ pc[t] = "idle"
  /\ op' = [op EXCEPT ![t] = o]
  /\ cell_index' = [cell_index EXCEPT ![t] = c]
  /\ pc' = [pc EXCEPT ![t] = label]
  /\ pre' = [pre EXCEPT ![t] = m_tls_grids[t]]
  /\ prelist' = [prelist EXCEPT ![t] = m_tls_locked_cells[t]]
  /\ preslot' = [preslot EXCEPT ![t] = m_grid[o.index]]
  /\ UNCHANGED <<region_held, attempts, ctor, ret_index, tried>>

\* try_lock(int cell_index)
CallTryLockCell(t, c) ==
  /\ Begin(t, [name |-> "try_lock_cell", point |-> <<>>, radius |-> 0,
               index |-> c], c, EnterLabel(t, c, m_tls_grids[t]))
  /\ UNCHANGED <<strategy, m_grid, m_tls_grids, m_tls_locked_cells,
                 m_tls_thread_ids, last_id, id_reg, old_value, this_ret,
                 locked_cells_tmp, pos, it, holds>>

\* try_lock(point, lock_radius): the index of the point is computed; with
\* radius 0 the call is try_lock(index), otherwise the loops start at the
\* first cell of the cube.
CallTryLockPoint(t, p, r) ==
  /\ Begin(t, [name |-> "try_lock_point", point |-> p, radius |-> r,
               index |-> PointIndex(p)],
           IF r = 0 THEN PointIndex(p) ELSE CubeSeq(p, r)[1],
           EnterLabel(t, IF r = 0 THEN PointIndex(p) ELSE CubeSeq(p, r)[1],
                      m_tls_grids[t]))
  /\ pos' = [pos EXCEPT ![t] = IF r = 0 THEN 0 ELSE 1]
  /\ UNCHANGED <<strategy, m_grid, m_tls_grids, m_tls_locked_cells,
                 m_tls_thread_ids, last_id, id_reg, old_value, this_ret,
                 locked_cells_tmp, it, holds>>

\* unlock(int cell_index), called as its contract asks: on a cell the thread
\* holds.
CallUnlockCell(t, c) ==
  /\ c \in m_tls_grids[t]
  /\ Begin(t, [name |-> "unlock_cell", point |-> <<>>, radius |-> 0,
               index |-> c], c, "unlock_grid")
  /\ UNCHANGED <<strategy, m_grid, m_tls_grids, m_tls_locked_cells,
                 m_tls_thread_ids, last_id, id_reg, old_value, this_ret,
                 locked_cells_tmp, pos, it, holds>>

\* unlock(point): the index of the point is computed and unlock(index) called.
CallUnlockPoint(t, p) ==
  /\ PointIndex(p) \in m_tls_grids[t]
  /\ Begin(t, [name |-> "unlock_point", point |-> p, radius |-> 0,
               index |-> PointIndex(p)], PointIndex(p), "unlock_grid")
  /\ UNCHANGED <<strategy, m_grid, m_tls_grids, m_tls_locked_cells,
                 m_tls_thread_ids, last_id, id_reg, old_value, this_ret,
                 locked_cells_tmp, pos, it, holds>>

\* unlock_all_tls_locked_cells(): it = tls_locked_cells.begin()
CallUnlockAll(t) ==
  /\ Begin(t, [name |-> "unlock_all", point |-> <<>>, radius |-> 0,
               index |-> 0], cell_index[t], "unlock_all")
  /\ it' = [it EXCEPT ![t] = 1]
  /\ UNCHANGED <<strategy, m_grid, m_tls_grids, m_tls_locked_cells,
                 m_tls_thread_ids, last_id, id_reg, old_value, this_ret,
                 locked_cells_tmp, pos, holds>>

\* check_if_all_tls_cells_are_unlocked(): reads the thread's bitmap only.
CallCheckAllUnlocked(t) ==
  /\ Begin(t, [name |-> "check_all", point |-> <<>>, radius |-> 0,
               index |-> 0], cell_index[t], "ret")
  /\ this_ret' = [this_ret EXCEPT ![t] = AllTlsCellsUnlocked(t)]
  /\ UNCHANGED <<strategy, m_grid, m_tls_grids, m_tls_locked_cells,
                 m_tls_thread_ids, last_id, id_reg, old_value,
                 locked_cells_tmp, pos, it, holds>>

\* The call returns to the caller; the locals of the method are gone.
Return(t) ==
  /\ pc[t] = "ret"
  /\ pc' = [pc EXCEPT ![t] = "idle"]
  /\ op' = [op EXCEPT ![t] = NoOp]
  /\ cell_index' = [cell_index EXCEPT ![t] = 0]
  /\ old_value' = [old_value EXCEPT ![t] = 0]
  /\ this_ret' = [this_ret EXCEPT ![t] = FALSE]
  /\ ret_index' = [ret_index EXCEPT ![t] = 0]
  /\ locked_cells_tmp' = [locked_cells_tmp EXCEPT ![t] = <<>>]
  /\ pos' = [pos EXCEPT ![t] = 0]
  /\ it' = [it EXCEPT ![t] = 0]
  /\ pre' = [pre EXCEPT ![t] = {}]
  /\ prelist' = [prelist EXCEPT ![t] = <<>>]
  /\ preslot' = [preslot EXCEPT ![t] = FreeSlot]
  /\ attempts' = [attempts EXCEPT ![t] = 0]
  /\ tried' = [tried EXCEPT ![t] = <<>>]
  /\ UNCHANGED <<strategy, m_grid, m_tls_grids, m_tls_locked_cells,
                 m_tls_thread_ids, last_id, id_reg, holds, region_held, ncalls, ctor>>

\* One more public call is started, within the bound on their number.
Counted == ncalls < MaxCalls /\ ncalls' = ncalls + 1

\* A step inside a call of thread t.
Inside(t) ==
  \/ TryLockReentrant(t)
  \/ ThreadIdRead(t)
  \/ ThreadIdWrite(t)
  \/ Attempt(t)
  \/ MarkLocked(t)
  \/ UnlockGrid(t)
  \/ UnlockTls(t)
  \/ UnlockAllLoop(t)
  \/ Return(t)

Next ==
  \E t \in Threads :
    \/ \E c \in CellArgs : CallTryLockCell(t, c) /\ Counted
    \/ \E p \in Points, r \in Radii : CallTryLockPoint(t, p, r) /\ Counted
    \/ \E c \in CellArgs : CallUnlockCell(t, c) /\ Counted
    \/ \E p \in Points : CallUnlockPoint(t, p) /\ Counted
    \/ CallUnlockAll(t) /\ Counted
    \/ CallCheckAllUnlocked(t) /\ Counted
    \/ Inside(t)

Spec == Init /\ [][Next]_vars

\* ------------------------------------------------- workers of the owner-id class
\* The use the refinement makes of the owner-id class: every thread, again
\* and again, tries to lock the region around a point and, after each
\* attempt that succeeded, runs unlock_all_tls_locked_cells.  The number of
\* calls is not bounded; a thread whose list has no room left for another
\* attempt makes none.  Each worker refines around a point of its own; the
\* cubes of radius > 0 around the two points share a cell.
WorkerPoint(t) == IF t = 1 THEN <<1, 1, 1>> ELSE <<14, 14, 14>>

WorkerTryLock(t, p, r) ==
  /\ m_tls_grids[t] = {}
  /\ Len(m_tls_locked_cells[t]) + Len(CubeSeq(p, r)) <= MaxListLen
  /\ CallTryLockPoint(t, p, r)
  /\ UNCHANGED ncalls

WorkerUnlockAll(t) ==
  /\ m_tls_grids[t] # {}
  /\ CallUnlockAll(t)
  /\ UNCHANGED ncalls

\* No cell is held when an attempt starts, so the reentrant path is never
\* entered.
WorkerStep(t) ==
  \/ \E r \in Radii \ {0} : WorkerTryLock(t, WorkerPoint(t), r)
  \/ WorkerUnlockAll(t)
  \/ ThreadIdRead(t)
  \/ ThreadIdWrite(t)
  \/ Attempt(t)
  \/ MarkLocked(t)
  \/ UnlockGrid(t)
  \/ UnlockTls(t)
  \/ UnlockAllLoop(t)
  \/ Return(t)

WorkerInit == Init /\ strategy = "ids"

WorkerNext == \E t \in Threads : WorkerStep(t)

\* Every thread that can take a step eventually takes one: the scheduler
\* runs every runnable thread, and the spin loop yields.
FairSpec ==
  WorkerInit /\ [][WorkerNext]_vars /\ \A t \in Threads : WF_vars(WorkerStep(t))

\* ------------------------------------------ two threads on overlapping regions
\* Thread ScenA locks the region of radius 1 around ScenPointA; when that
\* call has returned, thread ScenB tries the region of radius 1 around
\* ScenPointB, which shares cells with the first; ScenA then runs
\* unlock_all_tls_locked_cells and ScenB repeats its call.  ScenA releases
\* once the call of ScenB has returned or is waiting in the loop of
\* try_lock(int) for a cell of ScenA.
ScenA == CHOOSE t \in Threads : \A u \in Threads : t <= u
ScenB == CHOOSE t \in Threads : t # ScenA
ScenPointA == <<14, 14, 14>>
ScenPointB == <<6, 6, 6>>
ScenRadius == CHOOSE r \in Radii : r > 0
ScenCubeA == SeqSet(CubeSeq(ScenPointA, ScenRadius))
ScenCubeB == SeqSet(CubeSeq(ScenPointB, ScenRadius))

ScenALock ==
  /\ ncalls = 0
  /\ CallTryLockPoint(ScenA, ScenPointA, ScenRadius)
  /\ ncalls' = 1

\* First call (ncalls = 1) and retry (ncalls = 3) of ScenB.
ScenBTry ==
  /\ ncalls \in {1, 3}
  /\ pc[ScenA] = "idle"
  /\ CallTryLockPoint(ScenB, ScenPointB, ScenRadius)
  /\ ncalls' = ncalls + 1

ScenARelease ==
  /\ ncalls = 2
  /\ \/ pc[ScenB] = "idle"
     \/ /\ strategy = "ids"
        /\ pc[ScenB] = "cas"
        /\ old_value[ScenB] # 0
  /\ CallUnlockAll(ScenA)
  /\ ncalls' = 3

ScenStep(t) == Inside(t) /\ UNCHANGED ncalls

ScenarioNext ==
  \/ ScenALock
  \/ ScenBTry
  \/ ScenARelease
  \/ \E t \in Threads : ScenStep(t)

ScenarioSpec == Init /\ [][ScenarioNext]_vars

\* --------------------------------------------------- unlock outside its contract
\* unlock(int cell_index) called on a cell the bitmap of the caller does not
\* mark: the function has no test of the bitmap, its two statements run as
\* in any other call.
CallUnlockCellUnheld(t, c) ==
  /\ c \notin m_tls_grids[t]
  /\ Begin(t, [name |-> "unlock_cell", point |-> <<>>, radius |-> 0,
               index |-> c], c, "unlock_grid")
  /\ UNCHANGED <<strategy, m_grid, m_tls_grids, m_tls_locked_cells,
                 m_tls_thread_ids, last_id, id_reg, old_value, this_ret,
                 locked_cells_tmp, pos, it, holds>>

\* The manager used by callers that may also unlock cells they do not hold.
MisuseNext ==
  \/ Next
  \/ \E t \in Threads, c \in CellArgs : CallUnlockCellUnheld(t, c) /\ Counted

MisuseSpec == Init /\ [][MisuseNext]_vars

\* ------------------------------------------- index of points far from the box
\* static_cast<int> of a double whose truncated value does not fit an int is
\* undefined; the builds in use produce the smallest int (x86 conversion
\* instructions) or saturate to the nearest bound.
IntMin == -(2 ^ (IntBits - 1))
IntMax == 2 ^ (IntBits - 1) - 1

StaticCastInt(num, den) ==
  LET q == TruncDiv(num, den)
  IN IF q \in IntMin..IntMax THEN {q} ELSE {IntMin, IntMax}

\* The values index_x (index_y, index_z) can take after the clamp.
AxisIndices(v, vmin, vmax) ==
  {Max(0, Min(i, N - 1)) : i \in StaticCastInt((v - vmin) * N, vmax - vmin)}

PointIndices(p) ==
  {CellIndex(ix, iy, iz) :
     ix \in AxisIndices(p[1], Bbox.xmin, Bbox.xmax),
     iy \in AxisIndices(p[2], Bbox.ymin, Bbox.ymax),
     iz \in AxisIndices(p[3], Bbox.zmin, Bbox.zmax)}

\* Points below the box, on its faces, inside it, beyond it and far beyond it.
IndexPoints ==
  {<<x, y, z>> : x \in {-5, 0, 5, 12, 17, 1000}, y \in {5, 1000}, z \in {12}}

\* try_lock(point) with the default lock_radius = 0.
IndexTryLock(t, p) ==
  /\ \E idx \in PointIndices(p) :
       Begin(t, [name |-> "try_lock_point", point |-> p, radius |-> 0,
                 index |-> idx], idx, EnterLabel(t, idx, m_tls_grids[t]))
  /\ pos' = [pos EXCEPT ![t] = 0]
  /\ UNCHANGED <<strategy, m_grid, m_tls_grids, m_tls_locked_cells,
                 m_tls_thread_ids, last_id, id_reg, old_value, this_ret,
                 locked_cells_tmp, it, holds>>

\* unlock(point)
IndexUnlock(t, p) ==
  /\ \E idx \in PointIndices(p) :
       Begin(t, [name |-> "unlock_point", point |-> p, radius |-> 0,
                 index |-> idx], idx, "unlock_grid")
  /\ UNCHANGED <<strategy, m_grid, m_tls_grids, m_tls_locked_cells,
                 m_tls_thread_ids, last_id, id_reg, old_value, this_ret,
                 locked_cells_tmp, pos, it, holds>>

IndexStep(t) ==
  \/ TryLockReentrant(t)
  \/ ThreadIdRead(t)
  \/ ThreadIdWrite(t)
  \/ Attempt(t)
  \/ MarkLocked(t)
  \/ UnlockGrid(t)
  \/ UnlockTls(t)
  \/ Return(t)

\* One thread locking and unlocking the cells of points.
IndexNext ==
  \/ \E p \in IndexPoints : IndexTryLock(ScenA, p) /\ Counted
  \/ \E p \in IndexPoints : IndexUnlock(ScenA, p) /\ Counted
  \/ IndexStep(ScenA) /\ UNCHANGED ncalls

IndexSpec == Init /\ [][IndexNext]_vars

\* ------------------------------------------------ constructor and its arguments
\* Values of num_grid_cells_per_axis and boxes handed to the constructor:
\* negative, zero and positive cell counts; boxes with and without extent
\* on each axis.
CtorCells == {-1, 0, 1, 2}
CtorExtents == {0, 6, 12}
CtorBoxes ==
  {[xmin |-> 0, ymin |-> 0, zmin |-> 0, xmax |-> ex, ymax |-> ey, zmax |-> ez] :
     ex \in CtorExtents, ey \in CtorExtents, ez \in CtorExtents}

\* Before the constructor runs: its arguments are chosen, no member exists.
CtorInit ==
  /\ strategy \in Strategies
  /\ ctor \in {[status |-> "args", n |-> n, bbox |-> b, num_cells |-> 0,
                resolution |-> <<>>] : n \in CtorCells, b \in CtorBoxes}
  /\ m_grid = <<>>
  /\ m_tls_grids = [t \in Threads |-> {}]
  /\ m_tls_locked_cells = [t \in Threads |-> <<>>]
  /\ m_tls_thread_ids = [t \in Threads |-> 0]
  /\ last_id = 0
  /\ id_reg = [t \in Threads |-> 0]
  /\ pc = [t \in Threads |-> "idle"]
  /\ op = [t \in Threads |-> NoOp]
  /\ cell_index = [t \in Threads |-> 0]
  /\ old_value = [t \in Threads |-> 0]
  /\ this_ret = [t \in Threads |-> FALSE]
  /\ ret_index = [t \in Threads |-> 0]
  /\ locked_cells_tmp = [t \in Threads |-> <<>>]
  /\ pos = [t \in Threads |-> 0]
  /\ it = [t \in Threads |-> 0]
  /\ holds = [t \in Threads |-> {}]
  /\ pre = [t \in Threads |-> {}]
  /\ prelist = [t \in Threads |-> <<>>]
  /\ preslot = [t \in Threads |-> FreeSlot]
  /\ region_held = [t \in Threads |-> {}]
  /\ attempts = [t \in Threads |-> 0]
  /\ tried = [t \in Threads |-> <<>>]
  /\ ncalls = 0

\* The constructor runs on the chosen arguments.
CtorRun ==
  /\ ctor.status = "args"
  /\ ctor' = Construct(ctor.bbox, ctor.n)
  /\ m_grid' = [c \in 0..(ctor'.num_cells - 1) |-> FreeSlot]
  /\ UNCHANGED <<strategy, m_tls_grids, m_tls_locked_cells, m_tls_thread_ids,
                 last_id, id_reg, pc, op, cell_index, old_value, this_ret,
                 locked_cells_tmp, pos, it, holds, pre, prelist, preslot,
                 region_held, attempts, tried, ret_index, ncalls>>

CtorNext == CtorRun

CtorSpec == CtorInit /\ [][CtorNext]_vars

\* ------------------------------------------------- longer runs on single cells
\* The threads lock single cells (by index, or by point with radius 0),
\* unlock cells they hold and run unlock_all_tls_locked_cells, for more
\* calls than in the runs that include regions.
LedgerCounted == ncalls < MaxLedgerCalls /\ ncalls' = ncalls + 1

LedgerStep(t) ==
  \/ TryLockReentrant(t)
  \/ ThreadIdRead(t)
  \/ ThreadIdWrite(t)
  \/ Attempt(t)
  \/ MarkLocked(t)
  \/ UnlockGrid(t)
  \/ UnlockTls(t)
  \/ UnlockAllLoop(t)
  \/ Return(t)

LedgerNext ==
  \E t \in Threads :
    \/ \E c \in CellArgs : CallTryLockCell(t, c) /\ LedgerCounted
    \/ \E p \in Points : CallTryLockPoint(t, p, 0) /\ LedgerCounted
    \/ \E c \in CellArgs : CallUnlockCell(t, c) /\ LedgerCounted
    \/ CallUnlockAll(t) /\ LedgerCounted
    \/ LedgerStep(t) /\ UNCHANGED ncalls

LedgerSpec == Init /\ [][LedgerNext]_vars

\* =================================================================== claims
\* Thread t is between two of its public calls, or has just finished one.
AtRest(t) == pc[t] \in {"idle", "ret"}

\* Thread t is the holder of slot c as far as the shared table shows it; the
\* anonymous boolean of the binary class (and an id two threads may share)
\* is attributed by the acquisition history.
TableHeldBy(t, c) ==
  CASE strategy = "binary" -> m_grid[c] = TRUE /\ c \in holds[t]
    [] strategy = "ids"    -> /\ m_grid[c] # 0
                              /\ m_grid[c] = m_tls_thread_ids[t]
                              /\ c \in holds[t]
    [] strategy = "mutex"  -> m_grid[c].owner = t

\* Thread t has just returned value r from try_lock(point, radius > 0).
RegionReturned(t, r) ==
  /\ pc[t] = "ret"
  /\ op[t].name = "try_lock_point"
  /\ op[t].radius > 0
  /\ this_ret[t] = r

\* The clamped neighbourhood cube of the running region call of thread t.
CubeOf(t) == SeqSet(CubeSeq(op[t].point, op[t].radius))

\* C1  Mutual exclusion of cells: in each of the three classes no two
\* different threads hold the same cell at the same time, a thread holding
\* a cell from its successful acquisition until it starts to unlock it.
C1_MutualExclusion ==
  \A t1 \in Threads, t2 \in Threads :
    t1 # t2 => holds[t1] \cap holds[t2] = {}

\* C1 witness: a thread has been refused a cell that another thread holds.
C1_Witness ==
  \E t1 \in Threads, t2 \in Threads :
    /\ t1 # t2
    /\ pc[t2] = "ret"
    /\ op[t2].name = "try_lock_cell"
    /\ this_ret[t2] = FALSE
    /\ op[t2].index \in holds[t1]

\* C2  All-or-nothing: when try_lock(point, radius > 0) returns failure, no
\* cell of the cube that the thread did not hold before the call is held by
\* it afterwards, neither in the shared table nor in its bitmap.
C2_AllOrNothing ==
  \A t \in Threads :
    RegionReturned(t, FALSE) =>
      \A c \in CubeOf(t) \ pre[t] :
        /\ c \notin m_tls_grids[t]
        /\ c \notin holds[t]
        /\ ~TableHeldBy(t, c)
        /\ strategy = "mutex" => m_grid[c].owner # t

\* C2 witness: a region call has failed after acquiring cells of its own.
C2_Witness ==
  \E t \in Threads :
    /\ RegionReturned(t, FALSE)
    /\ SeqSet(locked_cells_tmp[t]) \ pre[t] # {}

\* C3  As claimed: a failed try_lock(point, radius) leaves every cell the
\* thread held before the call held by it.
C3_PriorHoldingsKept ==
  \A t \in Threads :
    RegionReturned(t, FALSE) =>
      \A c \in pre[t] : c \in m_tls_grids[t] /\ c \in holds[t]

\* C4  As claimed: a thread of the owner-id class that is about to retry
\* has seen a holder id greater than its own, and a thread that gave up has
\* seen a smaller one.
C4_SpinOnGreaterAsClaimed ==
  \A t \in Threads :
    (strategy = "ids" /\ old_value[t] # 0) =>
      IF pc[t] = "cas"
      THEN old_value[t] > m_tls_thread_ids[t]
      ELSE old_value[t] < m_tls_thread_ids[t]

\* C4  Amended: in the owner-id class an attempt that finds the id h of
\* another holder in the slot is repeated if h is smaller than the thread's
\* own id, and try_lock(int) fails at once, without another attempt, if h is
\* greater than its own id.
C4_OwnerIdRule ==
  [][\A t \in Threads :
       LET h == m_grid[cell_index[t]]
           id == m_tls_thread_ids[t]
       IN (/\ strategy = "ids"
           /\ pc[t] = "cas"
           /\ h # 0
           /\ (pc'[t] # pc[t] \/ old_value'[t] # old_value[t]))
          => /\ old_value'[t] = h
             /\ h < id => pc'[t] = "cas"
             /\ h > id => /\ pc'[t] \in {"ret", "unlock_grid"}
                          /\ cell_index[t] \notin m_tls_grids'[t]
                          /\ m_grid' = m_grid]_vars

\* C4 witness: one thread is retrying on a holder with a smaller id while
\* another has given up on a holder with a greater id.
C4_Witness ==
  \E t \in Threads, u \in Threads :
    /\ strategy = "ids"
    /\ pc[t] = "cas" /\ old_value[t] # 0
    /\ old_value[t] < m_tls_thread_ids[t]
    /\ pc[u] # "cas" /\ old_value[u] > m_tls_thread_ids[u]

\* C6  As claimed: in every state, also between the two writes of
\* try_lock(int) and of unlock(int), at most one thread's bitmap marks a
\* given cell.
C6_LedgerExclusion ==
  \A c \in Cells :
    Cardinality({t \in Threads : c \in m_tls_grids[t]}) <= 1

C8_ReentrantNoEffect ==
  \A t \in Threads :
    (/\ pc[t] = "ret"
     /\ op[t].name \in {"try_lock_cell", "try_lock_point"}
     /\ op[t].radius = 0
     /\ op[t].index \in pre[t])
    => /\ this_ret[t] = TRUE
       /\ m_grid[op[t].index] = preslot[t]
       /\ m_tls_grids[t] = pre[t]
       /\ m_tls_locked_cells[t] = prelist[t]

\* C8 witness: a thread has returned from try_lock on a cell it held before.
C8_Witness ==
  \E t \in Threads :
    /\ pc[t] = "ret"
    /\ op[t].name \in {"try_lock_cell", "try_lock_point"}
    /\ op[t].radius = 0
    /\ op[t].index \in pre[t]

\* Slot c, once released by thread t, is free or has been acquired by
\* another thread since.
ReleasedBy(t, c) ==
  /\ c \notin holds[t]
  /\ m_grid[c] = FreeSlot \/ \E u \in Threads \ {t} : c \in holds[u]

\* C9  As claimed: when unlock_all_tls_locked_cells returns, the bitmap of
\* the thread is all false and every slot the thread held is free.
C9_SlotsFreeAsClaimed ==
  \A t \in Threads :
    (pc[t] = "ret" /\ op[t].name = "unlock_all") =>
      /\ AllTlsCellsUnlocked(t)
      /\ \A c \in pre[t] : m_grid[c] = FreeSlot

\* C9  Amended: once a thread has passed every cell it holds to unlock, or
\* has run unlock_all_tls_locked_cells once, its bitmap is all false,
\* check_if_all_tls_cells_are_unlocked returns true for it, and every slot
\* it held has been released by it: the slot is free unless another thread
\* has acquired it since.
C9_RoundTrip ==
  \A t \in Threads :
    /\ (pc[t] = "ret" /\ op[t].name = "unlock_all") =>
         /\ AllTlsCellsUnlocked(t)
         /\ \A c \in pre[t] : ReleasedBy(t, c)
    /\ (/\ pc[t] = "ret"
        /\ op[t].name \in {"unlock_cell", "unlock_point"}
        /\ pre[t] = {op[t].index}) =>
         /\ AllTlsCellsUnlocked(t)
         /\ ReleasedBy(t, op[t].index)
    /\ (pc[t] = "ret" /\ op[t].name = "check_all" /\ holds[t] = {}) =>
         this_ret[t] = TRUE

\* C9 witness: unlock_all_tls_locked_cells has returned to a thread that
\* held several cells when it called it.
C9_Witness ==
  \E t \in Threads :
    /\ pc[t] = "ret"
    /\ op[t].name = "unlock_all"
    /\ Cardinality(pre[t]) >= 2

\* C10  As claimed: after try_lock(point, radius > 0) has returned success,
\* every cell of the clamped cube is held by the thread, in the table and
\* in its bitmap, until the thread passes it to unlock or runs
\* unlock_all_tls_locked_cells.
C10_RegionStaysHeld ==
  \A t \in Threads :
    /\ RegionReturned(t, TRUE) => CubeOf(t) \subseteq region_held[t]
    /\ \A c \in region_held[t] : c \in m_tls_grids[t] /\ TableHeldBy(t, c)

\* Thread t of the owner-id class is in the spin loop of try_lock(int): its
\* last compare_and_swap found another id in the slot and it will retry.
Spinning(t) == strategy = "ids" /\ pc[t] = "cas" /\ old_value[t] # 0

\* C5  As claimed: under fair scheduling every try_lock call of a worker
\* eventually returns.
C5_EveryCallReturns ==
  \A t \in Threads :
    (op[t].name = "try_lock_point" /\ pc[t] # "ret")
      ~> (op[t].name = "try_lock_point" /\ pc[t] = "ret")

\* C5  Amended: under fair scheduling no set of workers spins forever
\* waiting on each other: a worker leaves the spin loop again and again, or
\* else workers with smaller ids acquire cells again and again (a worker
\* can be starved by them, it cannot be deadlocked).
C5_NoMutualWaiting ==
  \A t \in Threads :
    \/ []<>(~Spinning(t))
    \/ []<>(\E u \in Threads \ {t} :
              /\ m_tls_thread_ids[u] < m_tls_thread_ids[t]
              /\ pc[u] = "mark")

\* C5 witness: two workers with distinct ids, one spinning on a cell of the
\* other while that one is in a region call of its own.
C5_Witness ==
  \E t \in Threads, u \in Threads :
    /\ Spinning(t)
    /\ old_value[t] = m_tls_thread_ids[u]
    /\ m_tls_thread_ids[u] # m_tls_thread_ids[t]
    /\ op[u].name = "try_lock_point"
    /\ pc[u] \in {"cas", "mark"}

\* The first call of ScenB (before its retry) has returned.
ScenFirstReturned ==
  /\ ncalls \in {2, 3}
  /\ pc[ScenB] = "ret"
  /\ op[ScenB].name = "try_lock_point"

\* ScenB holds no cell of its cube, neither in the table nor in its bitmap.
ScenBHoldsNone ==
  /\ holds[ScenB] \cap ScenCubeB = {}
  /\ m_tls_grids[ScenB] \cap ScenCubeB = {}
  /\ \A c \in ScenCubeB : ~TableHeldBy(ScenB, c)

\* ScenB holds its whole cube, in the table and in its bitmap.
ScenBHoldsAll ==
  /\ ScenCubeB \subseteq m_tls_grids[ScenB]
  /\ \A c \in ScenCubeB : TableHeldBy(ScenB, c)

\* C11  As claimed: in each class the first call of the second thread, made
\* while the first thread holds an overlapping region, returns failure and
\* leaves the second thread without any cell of its cube.
C11_FirstCallFailsAsClaimed ==
  ScenFirstReturned => (this_ret[ScenB] = FALSE /\ ScenBHoldsNone)

\* C11  Amended: while the first thread holds its region, the call of the
\* second thread returns failure, leaving it without any cell of its cube,
\* in the binary and mutex classes; in the owner-id class the second
\* thread, whose id is the greater one, does not return while the first
\* holds the shared cells: it returns success once the first thread has run
\* unlock_all_tls_locked_cells.  After that release a call of the second
\* thread on the same region returns success in the three classes.
C11_OverlapScenario ==
  /\ (ScenFirstReturned /\ ncalls = 2) =>
       /\ strategy # "ids"
       /\ this_ret[ScenB] = FALSE
       /\ ScenBHoldsNone
  /\ (ScenFirstReturned /\ ncalls = 3) =>
       /\ strategy = "ids"
       /\ m_tls_thread_ids[ScenB] > m_tls_thread_ids[ScenA]
       /\ this_ret[ScenB] = TRUE
       /\ ScenBHoldsAll
  /\ (ncalls = 4 /\ pc[ScenB] = "ret") =>
       /\ this_ret[ScenB] = TRUE
       /\ ScenBHoldsAll

\* C11 witness: the retry of the second thread has returned after its first
\* call had failed on cells locked before the shared one and the first
\* thread had released its region.
C11_Witness ==
  /\ ncalls = 4
  /\ pc[ScenB] = "ret"
  /\ strategy # "ids"
  /\ ScenCubeA \cap ScenCubeB # {}
  /\ Len(m_tls_locked_cells[ScenB]) > Cardinality(ScenCubeB)
  /\ holds[ScenA] = {}

C13_FailureChangesNothing ==
  [][\A t \in Threads :
       op[t].name = "try_lock_cell" =>
         /\ (pc'[t] # pc[t] /\ m_grid' # m_grid) =>
              /\ pc[t] = "cas"
              /\ pc'[t] = "mark"
         /\ (pc[t] = "mark" /\ pc'[t] # "mark") =>
              /\ pc'[t] = "ret"
              /\ this_ret'[t] = TRUE
         /\ (pc[t] # "ret" /\ pc'[t] = "ret" /\ this_ret'[t] = FALSE) =>
              /\ m_grid' = m_grid
              /\ m_tls_grids'[t] = pre[t]
              /\ m_tls_locked_cells'[t] = prelist[t]
              /\ op[t].index \notin holds'[t]]_vars

\* C13 witness: try_lock(cell) has returned false to a thread that held
\* another cell and had a non-empty list when it called.
C13_Witness ==
  \E t \in Threads :
    /\ pc[t] = "ret"
    /\ op[t].name = "try_lock_cell"
    /\ this_ret[t] = FALSE
    /\ pre[t] # {}
    /\ prelist[t] # <<>>
    /\ m_tls_grids[t] = pre[t]

\* C14  As claimed: an unlock(cell) by a thread whose bitmap does not mark
\* the cell never reaches the shared table, so that a slot a thread has
\* acquired and not passed to unlock is never free.
C14_UnlockGuarded ==
  \A u \in Threads, c \in Cells :
    c \in holds[u] => m_grid[c] # FreeSlot

\* C15  As claimed: in the owner-id class no two threads obtain the same id,
\* whatever the interleaving of their first uses; every id obtained is
\* greater than 0 and not greater than the counter.
C15_UniqueIds ==
  \A t \in Threads, u \in Threads :
    (t # u /\ m_tls_thread_ids[t] # 0 /\ m_tls_thread_ids[u] # 0) =>
      /\ m_tls_thread_ids[t] # m_tls_thread_ids[u]
      /\ m_tls_thread_ids[t] > 0
      /\ m_tls_thread_ids[t] <= last_id

\* C16  Wait-only-on-lower-ids: in the owner-id class a thread that is about
\* to repeat its compare_and_swap in try_lock(int) has last seen in the slot
\* an id strictly lower than its own, and a thread none of whose peers has a
\* lower id is never about to repeat it.
C16_WaitOnlyOnLowerIds ==
  \A t \in Threads :
    /\ Spinning(t) =>
         /\ old_value[t] > 0
         /\ old_value[t] < m_tls_thread_ids[t]
         /\ \E u \in Threads \ {t} : m_tls_thread_ids[u] = old_value[t]
    /\ (/\ m_tls_thread_ids[t] # 0
        /\ \A u \in Threads :
             m_tls_thread_ids[u] # 0 => m_tls_thread_ids[t] <= m_tls_thread_ids[u])
       => ~Spinning(t)

\* C16 witness: a thread has repeated its compare_and_swap and is about to
\* do so again, while the thread with the lowest id holds the cell after a
\* single attempt.
C16_Witness ==
  \E t \in Threads, u \in Threads :
    /\ Spinning(t)
    /\ attempts[t] = 2
    /\ m_tls_thread_ids[u] < m_tls_thread_ids[t]
    /\ cell_index[t] \in m_tls_grids[u]

\* The cell of the grid nearest to coordinate v on one axis: the cell that
\* contains v, or the first or last cell for v outside the box.
NearestAxisCell(v, vmin, vmax) ==
  IF v < vmin THEN 0
  ELSE IF v >= vmax THEN N - 1
  ELSE ((v - vmin) * N) \div (vmax - vmin)

NearestCell(p) ==
  NearestAxisCell(p[3], Bbox.zmin, Bbox.zmax) * N * N
    + NearestAxisCell(p[2], Bbox.ymin, Bbox.ymax) * N
    + NearestAxisCell(p[1], Bbox.xmin, Bbox.xmax)

\* C18  As claimed: for every point, inside or outside the box, the index
\* try_lock(point) and unlock(point) compute lies in 0 .. N^3-1 and is the
\* index of the cell containing the point or, for a point outside the box,
\* of the nearest boundary cell.
C18_GridIndex ==
  \A t \in Threads :
    op[t].name \in {"try_lock_point", "unlock_point"} =>
      /\ op[t].index \in Cells
      /\ op[t].index = NearestCell(op[t].point)

\* C17  As claimed: a constructor call with num_grid_cells_per_axis <= 0 or
\* with a box of zero extent on some axis does not run to its end: no cell
\* table is allocated and no resolution is computed by a division by zero.
C17_ConstructionChecked ==
  ctor.status = "built" =>
    /\ ctor.n > 0
    /\ ctor.bbox.xmax - ctor.bbox.xmin # 0
    /\ ctor.bbox.ymax - ctor.bbox.ymin # 0
    /\ ctor.bbox.zmax - ctor.bbox.zmin # 0
    /\ \A a \in 1..3 : ctor.resolution[a].kind = "finite"

\* What a returned try_lock on cell c with result r has done to thread t:
\* true on a cell held before changes nothing, true on another cell has
\* taken the slot, marked the cell and appended it to the list, false has
\* changed neither bitmap nor list and the thread does not hold the cell.
SingleCellEffect(t, c, r) ==
  IF r
  THEN /\ c \in m_tls_grids[t]
       /\ m_grid[c] # FreeSlot
       /\ m_tls_grids[t] = pre[t] \cup {c}
       /\ m_tls_locked_cells[t] =
            IF c \in pre[t] THEN prelist[t] ELSE Append(prelist[t], c)
       /\ c \notin pre[t] => c \in holds[t]
  ELSE /\ c \notin pre[t]
       /\ c \notin holds[t]
       /\ m_tls_grids[t] = pre[t]
       /\ m_tls_locked_cells[t] = prelist[t]

\* C19  Region call result: the second component of the pair returned by
\* try_lock(point, radius) is the index of the cell of the point, whether
\* the first is true or false and whatever cell was tried last; with radius
\* 0 the first component and the effect on table, bitmap and list are those
\* of a try_lock(cell) on that index, and no cell is rolled back.
C19_RegionCallResult ==
  \A t \in Threads :
    /\ (pc[t] = "ret" /\ op[t].name = "try_lock_point") =>
         /\ ret_index[t] = PointIndex(op[t].point)
         /\ op[t].radius = 0 =>
              /\ SingleCellEffect(t, PointIndex(op[t].point), this_ret[t])
              /\ locked_cells_tmp[t] = <<>>
              /\ attempts[t] <= (IF strategy = "ids" THEN 2 ELSE 1)
    /\ (pc[t] = "ret" /\ op[t].name = "try_lock_cell") =>
         SingleCellEffect(t, op[t].index, this_ret[t])

\* C19 witness: a region call has returned false after trying last a cell
\* other than the cell of its point, while a call with radius 0 of another
\* thread has returned true.
C19_Witness ==
  \E t \in Threads, u \in Threads :
    /\ RegionReturned(t, FALSE)
    /\ cell_index[t] # ret_index[t]
    /\ pc[u] = "ret"
    /\ op[u].name = "try_lock_point"
    /\ op[u].radius = 0
    /\ this_ret[u] = TRUE

\* C20  unlock_all_tls_locked_cells by a thread writes the shared table only
\* to release a cell that is recorded in the thread's list and whose bit is
\* set in the thread's bitmap, which leaves every slot held by another
\* thread as it is; when it returns, the list is empty, and the bits of the
\* recorded cells are cleared and the cells released.
C20_UnlockAllReleasesOwn ==
  [][\A t \in Threads :
       op[t].name = "unlock_all" =>
         /\ (pc'[t] # pc[t] /\ m_grid' # m_grid) =>
              /\ pc[t] = "unlock_grid"
              /\ cell_index[t] \in m_tls_grids[t]
              /\ cell_index[t] \in SeqSet(m_tls_locked_cells[t])
              /\ \A c \in Cells \ {cell_index[t]} : m_grid'[c] = m_grid[c]
              /\ \A u \in Threads \ {t} :
                   /\ cell_index[t] \notin holds[u]
                   /\ \A c \in holds[u] : m_grid'[c] = m_grid[c]
         /\ (pc[t] # "ret" /\ pc'[t] = "ret") =>
              /\ m_tls_locked_cells'[t] = <<>>
              /\ m_tls_grids'[t] = pre[t] \ SeqSet(prelist[t])
              /\ holds'[t] \cap SeqSet(prelist[t]) = {}
              /\ \A c \in SeqSet(prelist[t]) \cap pre[t] :
                   m_grid'[c] = FreeSlot \/ \E u \in Threads \ {t} : c \in holds'[u]
              /\ \A c \in SeqSet(prelist[t]) \ pre[t] :
                   \A u \in Threads \ {t} : c \in holds[u] => m_grid'[c] # FreeSlot]_vars

\* C20 witness: unlock_all_tls_locked_cells has returned to a thread that
\* held a cell and whose list also recorded a cell it had unlocked and
\* another thread holds since.
C20_Witness ==
  \E t \in Threads, u \in Threads :
    /\ t # u
    /\ pc[t] = "ret"
    /\ op[t].name = "unlock_all"
    /\ pre[t] # {}
    /\ \E c \in SeqSet(prelist[t]) \ pre[t] : c \in holds[u] /\ c \in m_tls_grids[u]

\* Position of cell c on the three axes: c = iz*n*n + iy*n + ix.
CellX(c) == c % N
CellY(c) == (c \div N) % N
CellZ(c) == c \div (N * N)

\* Cell c comes before cell d in the order that has x outermost, then y,
\* then z innermost, each ascending.
Before(c, d) ==
  \/ CellX(c) < CellX(d)
  \/ CellX(c) = CellX(d) /\ CellY(c) < CellY(d)
  \/ CellX(c) = CellX(d) /\ CellY(c) = CellY(d) /\ CellZ(c) < CellZ(d)

\* The cells of the grid at most r cells away on each axis from the cell of
\* point p: the clamped cube.
Neighbourhood(p, r) ==
  {c \in Cells : /\ CellX(c) \in (IndexX(p) - r)..(IndexX(p) + r)
                 /\ CellY(c) \in (IndexY(p) - r)..(IndexY(p) + r)
                 /\ CellZ(c) \in (IndexZ(p) - r)..(IndexZ(p) + r)}

\* The cells the running call of thread t has tried, and those among them
\* it acquired itself (the slot was taken by this call).
TriedCells(t) == {tried[t][q].cell : q \in 1..Len(tried[t])}
AcquiredInCall(t) ==
  {tried[t][q].cell : q \in {x \in 1..Len(tried[t]) : tried[t][x].path = "locked"}}

\* The part of C21 on the order of the attempts: a returned try_lock(point,
\* radius > 0) has tried cells of the clamped cube only, in the order x, y,
\* z with none left out, every try but the last returned true, the last
\* one returned what the call returns, and a successful call has tried the
\* whole cube.
TraversalInOrder(t) ==
  LET n == Len(tried[t])
      cube == Neighbourhood(op[t].point, op[t].radius)
  IN /\ n >= 1
     /\ TriedCells(t) \subseteq cube
     /\ \A q \in 1..(n - 1) : Before(tried[t][q].cell, tried[t][q + 1].cell)
     /\ \A c \in cube : Before(c, tried[t][n].cell) => c \in TriedCells(t)
     /\ \A q \in 1..(n - 1) : tried[t][q].ret = TRUE
     /\ tried[t][n].ret = this_ret[t]
     /\ this_ret[t] = TRUE => TriedCells(t) = cube

\* The part of C21 on the rollback: after a failed call the cells acquired
\* earlier in the call are released, and no other cell of the thread is.
RollbackOfAcquired(t) ==
  this_ret[t] = FALSE =>
    /\ \A c \in AcquiredInCall(t) : c \notin m_tls_grids[t] /\ c \notin holds[t]
    /\ \A c \in pre[t] : c \in m_tls_grids[t] /\ c \in holds[t]

\* C21  As claimed: within one try_lock(point, radius > 0) the cells of the
\* clamped cube are attempted in one fixed order (x outermost, then y, then
\* z innermost, each ascending), the call stops at the first cell whose
\* try_lock fails and attempts no later cell, and its rollback releases
\* exactly the cells acquired earlier in that same call.
C21_OrderAndRollback ==
  \A t \in Threads :
    (pc[t] = "ret" /\ op[t].name = "try_lock_point" /\ op[t].radius > 0) =>
      TraversalInOrder(t) /\ RollbackOfAcquired(t)

\* C22  List covers bitmap: whenever a thread is between two of its
\* operations, every cell whose bit is set in its bitmap occurs in its list
\* of locked cells; and unlock_all_tls_locked_cells, which walks the list
\* only, returns with no bit left set.
C22_ListCoversBitmap ==
  \A t \in Threads :
    /\ AtRest(t) => m_tls_grids[t] \subseteq SeqSet(m_tls_locked_cells[t])
    /\ (pc[t] = "ret" /\ op[t].name = "unlock_all") =>
         m_tls_grids[t] = {} /\ m_tls_locked_cells[t] = <<>>

\* C22 witness: a thread between two operations has a bit set, and its list
\* records that cell next to a cell it no longer holds.
C22_Witness ==
  \E t \in Threads :
    /\ pc[t] = "idle"
    /\ m_tls_grids[t] # {}
    /\ SeqSet(m_tls_locked_cells[t]) \ m_tls_grids[t] # {}

\* Number of entries of the list s that are cell c.
Occurrences(s, c) == Cardinality({q \in 1..Len(s) : s[q] = c})

\* C23  Duplicate list entries are harmless: unlock(cell) leaves the list
\* of the thread as it is, so a try_lock that acquires a cell the list
\* already records adds a second entry of it; all the same every release
\* of a slot by unlock_all_tls_locked_cells is of a cell the thread holds
\* and has not released before (mutex class: of a mutex the thread owns,
\* whose count does not go below zero), and when the call returns every
\* cell the thread held has been released.
C23_DuplicatesHarmless ==
  [][\A t \in Threads :
       LET c == cell_index[t] IN
       /\ (op[t].name = "unlock_cell" /\ pc'[t] = "ret") =>
            m_tls_locked_cells'[t] = prelist[t]
       /\ (op[t].name = "try_lock_cell" /\ pc[t] = "mark" /\ pc'[t] # pc[t]) =>
            Occurrences(m_tls_locked_cells'[t], c) = Occurrences(prelist[t], c) + 1
       /\ (op[t].name = "unlock_all" /\ pc[t] = "unlock_grid" /\ pc'[t] # pc[t]) =>
            /\ c \in holds[t]
            /\ c \notin holds'[t]
            /\ strategy = "mutex" =>
                 /\ m_grid[c].owner = t
                 /\ m_grid[c].count >= 1
                 /\ m_grid'[c].count = m_grid[c].count - 1
            /\ strategy # "mutex" => m_grid'[c] = FreeSlot
       /\ (op[t].name = "unlock_all" /\ pc[t] # "ret" /\ pc'[t] = "ret") =>
            /\ holds'[t] \cap pre[t] = {}
            /\ m_tls_grids'[t] = {}]_vars

\* C23 witness: unlock_all_tls_locked_cells has returned to a thread that
\* held a cell its list recorded twice.
C23_Witness ==
  \E t \in Threads :
    /\ pc[t] = "ret"
    /\ op[t].name = "unlock_all"
    /\ \E c \in pre[t] : Occurrences(prelist[t], c) >= 2

====
